---- MODULE Spec2Model ----
(***************************************************************************)
(* Verification model of the deciduous chess move-generation core:         *)
(* bitboard tables and generators (src/deciduous/src/moves.rs), the        *)
(* array board with make_move/unmake_move (src/deciduous/src/board.rs),    *)
(* and the perspective-relative Board that moves.rs reads (its struct is   *)
(* not part of the sources; it is modelled from spec.md sections 3, 4.3,   *)
(* 4.4 and 6).                                                             *)
(*                                                                         *)
(* A u64 bitboard is modelled as the set of its set bit positions, a       *)
(* subset of 0..63: & is \cap, | is \cup, ^ is symmetric difference, ! is  *)
(* complement in 0..63, and shifts drop the bits that leave the 64-bit     *)
(* word.                                                                   *)
(***************************************************************************)
EXTENDS Integers, Sequences, FiniteSets, TLC

VARIABLES
    board,      \* the perspective-relative Board read by MoveGen
    ply,        \* number of make_move calls not yet unmade
    stack,      \* per made move: the Move, the UndoInfo, the board before and after
    lastOp,     \* the Board operation that produced the current state
    flips,      \* the boards before the last (at most two) consecutive color_flip calls
    undone,     \* after unmake_move: the board before the move taken back was made
    bitboard,   \* board.rs Board.bitboard: [u64; 8]
    arrPly,     \* number of board.rs make_move calls not yet unmade
    arrStack,   \* per made move on the array board: the Move and the array before
    fnIn,       \* input of the pure function under test
    fnOp,       \* name of the pure function applied ("none" before the call)
    fnOut       \* its result

vars == <<board, ply, stack, lastOp, flips, undone,
          bitboard, arrPly, arrStack, fnIn, fnOp, fnOut>>

gameVars == <<board, ply, stack, lastOp, flips, undone>>
arrVars == <<bitboard, arrPly, arrStack>>
fnVars == <<fnIn, fnOp, fnOut>>

-----------------------------------------------------------------------------
(* Bounds of the model                                                     *)

\* make_move calls in a row on the Board, from a start position
MaxPly == 1
\* make_move calls in a row on the array board
ArrMaxPly == 1
\* files (from the a-file) whose squares the array-board moves may touch
ArrFiles == 3
\* set bits of the bitboards handed to bitscan_lsd and serialize_board
MaxBits == 2
\* the largest rank, file or range index passed to the index and fill functions
MaxIdx == 9
\* squares (the first ones of PieceSquares) that the pieces added to the
\* two kings of a sparse board may stand on
NumSquares == 6

-----------------------------------------------------------------------------
(* u64 arithmetic on bit sets                                              *)

Squares == 0..63

And(x, y) == x \cap y
Or(x, y) == x \cup y
Xor(x, y) == (x \ y) \cup (y \ x)
Not(x) == Squares \ x
\* x << n and x >> n on u64, 0 <= n < 64
Shl(x, n) == {s + n : s \in {t \in x : t + n <= 63}}
Shr(x, n) == {s - n : s \in {t \in x : t >= n}}
\* 1 << i
Bit(i) == {i}

\* Conversion of the source's decimal and hexadecimal u64 literals, given as
\* digit sequences (most significant digit first), to bit sets.
RECURSIVE HalveFrom(_, _, _)
HalveFrom(ds, i, carry) ==
    IF i > Len(ds) THEN <<>>
    ELSE LET cur == carry * 10 + ds[i]
         IN  <<cur \div 2>> \o HalveFrom(ds, i + 1, cur % 2)

RECURSIVE BitsOfDec(_, _)
BitsOfDec(ds, k) ==
    IF k > 63 \/ \A i \in 1..Len(ds) : ds[i] = 0 THEN {}
    ELSE (IF ds[Len(ds)] % 2 = 1 THEN {k} ELSE {})
         \cup BitsOfDec(HalveFrom(ds, 1, 0), k + 1)

FromDecimal(ds) == BitsOfDec(ds, 0)

\* hex digits are numbers 0..15; digit j from the right covers bits 4j..4j+3
FromHex(hs) ==
    {b \in Squares :
        /\ (b \div 4) + 1 <= Len(hs)
        /\ (hs[Len(hs) - (b \div 4)] \div (2 ^ (b % 4))) % 2 = 1}

-----------------------------------------------------------------------------
(* board.rs: constants                                                     *)

WHITE_PIECES == FromDecimal(<<6,5,5,3,5>>)
BLACK_PIECES == FromDecimal(<<1,8,4,4,6,4,6,2,5,9,8,7,3,2,8,4,0,9,6,0>>)
PAWNS == FromDecimal(<<7,1,7,7,6,1,1,9,0,6,1,2,8,2,5,6,0>>)
BISHOPS == FromDecimal(<<2,5,9,4,0,7,3,3,8,5,3,6,5,4,0,5,7,3,2>>)
KNIGHTS == FromDecimal(<<4,7,5,5,8,0,1,2,0,6,5,0,3,2,4,3,8,4,2>>)
ROOKS == FromDecimal(<<9,2,9,5,4,2,9,6,3,0,8,9,2,7,0,3,8,7,3>>)
KINGS == FromDecimal(<<5,7,6,4,6,0,7,5,2,3,0,3,4,2,3,4,9,6>>)
QUEENS == FromDecimal(<<1,1,5,2,9,2,1,5,0,4,6,0,6,8,4,6,9,9,2>>)
A_FILE == FromHex(<<0,1,0,1,0,1,0,1,0,1,0,1,0,1,0,1>>)
FIRST_RANK == FromHex(<<0,0,0,0,0,0,0,0,0,0,0,0,0,0,15,15>>)

-----------------------------------------------------------------------------
(* board.rs: square indexing                                               *)

\* the assertion of square_idx
square_idx_ok(rank, file) == rank < 8 /\ file < 8
square_idx(rank, file) == rank * 8 + file

rank_idx_shift(sq) == sq \div 4
\* square_idx >> 3
rank_idx(sq) == sq \div 8

\* square_idx & 7
file_idx(sq) == sq % 8

-----------------------------------------------------------------------------
(* Square indexing as moves.rs imports it from the board module            *)
(* (square_index, rank_index, file_index, diag_index, anti_diag_index are  *)
(* not part of the sources; spec.md sections 3 and 4.1 define them).       *)

square_index(rank, file) == rank * 8 + file
rank_index(sq) == sq \div 8
file_index(sq) == sq % 8
diag_index(sq) == 7 + rank_index(sq) - file_index(sq)
anti_diag_index(sq) == rank_index(sq) + file_index(sq)
\* rank r <-> rank 7 - r, same file
flip_square_index(sq) == square_index(7 - rank_index(sq), file_index(sq))

-----------------------------------------------------------------------------
(* moves.rs: fills, bit scan, serialization                                *)

\* an assertion that admits index 8
fill_rank_ok_inclusive(rank) == rank <= 8
\* the assertions of fill_rank and fill_file
fill_rank_ok(rank) == rank < 8
fill_file_ok(file) == file < 8

\* FIRST_RANK << (rank_idx * 8)
fill_rank(rank) == Shl(FIRST_RANK, rank * 8)

\* A_FILE << file_idx
fill_file(file) == Shl(A_FILE, file)

\* the assertion of rank_range and file_range
range_ok(start, end) == start <= end /\ start <= 8 /\ end <= 8

RECURSIVE rank_range_from(_, _, _)
rank_range_from(result, r, end) ==
    IF r > end THEN result
    ELSE rank_range_from(Or(result, fill_rank(r)), r + 1, end)

rank_range_open(start, end) == rank_range_from({}, start, end - 1)
\* for rank_idx in start..=end { result |= fill_rank(rank_idx) }
rank_range(start, end) == rank_range_from({}, start, end)

RECURSIVE file_range_from(_, _, _)
file_range_from(result, f, end) ==
    IF f > end THEN result
    ELSE file_range_from(Or(result, fill_file(f)), f + 1, end)

file_range(start, end) == file_range_from({}, start, end)

\* the call fails on its own assertion or on the assertion of one of the
\* fills of its loop
rank_range_panics(start, end) ==
    ~range_ok(start, end) \/ \E r \in start..end : ~fill_rank_ok(r)
file_range_panics(start, end) ==
    ~range_ok(start, end) \/ \E f \in start..end : ~fill_file_ok(f)

\* u64::trailing_zeros: the number of zero bits below the lowest set bit, 64 for 0
RECURSIVE trailing_zeros_from(_, _)
trailing_zeros_from(state, i) ==
    IF i = 64 \/ i \in state THEN i ELSE trailing_zeros_from(state, i + 1)

trailing_zeros(state) == trailing_zeros_from(state, 0)

\* Option<u8>
None == [some |-> FALSE, val |-> 0]
Some(v) == [some |-> TRUE, val |-> v]

bitscan_lsd_from_one(state) ==
    LET trailing == trailing_zeros_from(state, 1)
    IN  IF trailing = 64 THEN None ELSE Some(trailing)
\* None when trailing_zeros is 64, Some(trailing_zeros) otherwise
bitscan_lsd(state) ==
    LET trailing == trailing_zeros(state)
    IN  IF trailing = 64 THEN None ELSE Some(trailing)

\* the loop of serialize_board: while state != 0 { ... }
RECURSIVE serialize_board_loop(_, _)
serialize_board_loop(state, occupied) ==
    IF state = {} THEN occupied
    ELSE LET occ_idx == bitscan_lsd(state).val
         IN  serialize_board_loop(Xor(state, Bit(occ_idx)),
                                  Append(occupied, occ_idx))

RECURSIVE serialize_board_push_front(_, _)
serialize_board_push_front(state, occupied) ==
    IF state = {} THEN occupied
    ELSE LET occ_idx == bitscan_lsd(state).val
         IN  serialize_board_push_front(Xor(state, Bit(occ_idx)),
                                        <<occ_idx>> \o occupied)

serialize_board_reversed(state) == serialize_board_push_front(state, <<>>)
\* let mut occupied = Vec::new(); the loop; occupied
serialize_board(state) == serialize_board_loop(state, <<>>)

\* pop_count
pop_count(state) == Len(serialize_board(state))

-----------------------------------------------------------------------------
(* moves.rs: MoveGen::initialize, the lookup tables                        *)

mask_rank == [idx \in 0..7 |-> fill_rank(idx)]
mask_file == [idx \in 0..7 |-> fill_file(idx)]
clear_rank == [idx \in 0..7 |-> Not(mask_rank[idx])]
clear_file == [idx \in 0..7 |-> Not(mask_file[idx])]

RECURSIVE mask_diag_loop(_, _)
mask_diag_loop(t, idx) ==
    IF idx = 64 THEN t
    ELSE mask_diag_loop(
             [t EXCEPT ![diag_index(idx)] = Or(@, Bit(idx))], idx + 1)

mask_diag == mask_diag_loop([b \in 0..14 |-> {}], 0)

RECURSIVE mask_anti_diag_loop(_, _)
mask_anti_diag_loop(t, idx) ==
    IF idx = 64 THEN t
    ELSE mask_anti_diag_loop(
             [t EXCEPT ![anti_diag_index(idx)] = Or(@, Bit(idx))], idx + 1)

mask_anti_diag == mask_anti_diag_loop([b \in 0..14 |-> {}], 0)

ZeroTable == [idx \in Squares |-> {}]

\* the rectangular rays: for rank in 0..8 { for file in 0..8 { ... } }
RECURSIVE rect_rays_loop(_, _)
rect_rays_loop(t, k) ==
    IF k = 64 THEN t
    ELSE LET rank == k \div 8
             file == k % 8
             vertical == And(mask_file[file], clear_rank[rank])
             horizontal == And(mask_rank[rank], clear_file[file])
             idx == square_idx(rank, file)
         IN  rect_rays_loop(
                 [t EXCEPT !.north[idx] = And(rank_range(rank, 7), vertical),
                           !.south[idx] = And(rank_range(0, rank), vertical),
                           !.west[idx] = And(file_range(0, file), horizontal),
                           !.east[idx] = And(file_range(file, 7), horizontal)],
                 k + 1)

rect_rays ==
    rect_rays_loop([north |-> ZeroTable, south |-> ZeroTable,
                    west |-> ZeroTable, east |-> ZeroTable], 0)

north == rect_rays.north
south == rect_rays.south
west == rect_rays.west
east == rect_rays.east

diag_step_unmasked(o, x) ==
    CASE o = "NorthEast" -> Or(x, Shl(x, 9))
      [] o = "NorthWest" -> Or(x, Shl(x, 7))
      [] o = "SouthEast" -> Or(x, Shr(x, 7))
      [] o = "SouthWest" -> Or(x, Shr(x, 9))
\* one iteration of the diagonal ray loop for the ray of orientation o
diag_step(o, x) ==
    CASE o = "NorthEast" -> Or(x, Shl(And(x, clear_file[7]), 9))
      [] o = "NorthWest" -> Or(x, Shl(And(x, clear_file[0]), 7))
      [] o = "SouthEast" -> Or(x, Shr(And(x, clear_file[7]), 7))
      [] o = "SouthWest" -> Or(x, Shr(And(x, clear_file[0]), 9))

RECURSIVE diag_fill(_, _, _)
diag_fill(o, x, n) == IF n = 0 THEN x ELSE diag_fill(o, diag_step(o, x), n - 1)

\* ray = 1 << idx; 8 iterations of the step; ray &= !(1 << idx)
diag_ray(o, idx) == And(diag_fill(o, Bit(idx), 8), Not(Bit(idx)))

north_east == [idx \in Squares |-> diag_ray("NorthEast", idx)]
north_west == [idx \in Squares |-> diag_ray("NorthWest", idx)]
south_east == [idx \in Squares |-> diag_ray("SouthEast", idx)]
south_west == [idx \in Squares |-> diag_ray("SouthWest", idx)]

\* the eight knight shifts without the file masks
knight_movement_unmasked ==
    [idx \in Squares |->
        LET sq == Bit(idx)
        IN  Shl(sq, 17) \cup Shl(sq, 10) \cup Shr(sq, 6) \cup Shr(sq, 15)
            \cup Shr(sq, 17) \cup Shr(sq, 10) \cup Shl(sq, 6) \cup Shl(sq, 15)]
knight_movement ==
    [idx \in Squares |->
        LET sq == Bit(idx)
        IN  And(Shl(sq, 17), clear_file[0])
            \cup And(Shl(sq, 10), And(clear_file[0], clear_file[1]))
            \cup And(Shr(sq, 6), And(clear_file[0], clear_file[1]))
            \cup And(Shr(sq, 15), clear_file[0])
            \cup And(Shr(sq, 17), clear_file[7])
            \cup And(Shr(sq, 10), And(clear_file[6], clear_file[7]))
            \cup And(Shl(sq, 6), And(clear_file[6], clear_file[7]))
            \cup And(Shl(sq, 15), clear_file[7])]

king_movement ==
    [idx \in Squares |->
        LET sq == Bit(idx)
        IN  Shl(sq, 8)
            \cup And(Shl(sq, 9), clear_file[0])
            \cup And(Shl(sq, 1), clear_file[0])
            \cup And(Shr(sq, 7), clear_file[0])
            \cup Shr(sq, 8)
            \cup And(Shr(sq, 9), clear_file[7])
            \cup And(Shr(sq, 1), clear_file[7])
            \cup And(Shl(sq, 7), clear_file[7])]

Orientations ==
    {"North", "NorthEast", "East", "SouthEast",
     "South", "SouthWest", "West", "NorthWest"}

\* MoveGen::ray
ray(sq_idx, orientation) ==
    CASE orientation = "North" -> north[sq_idx]
      [] orientation = "NorthEast" -> north_east[sq_idx]
      [] orientation = "East" -> east[sq_idx]
      [] orientation = "SouthEast" -> south_east[sq_idx]
      [] orientation = "South" -> south[sq_idx]
      [] orientation = "SouthWest" -> south_west[sq_idx]
      [] orientation = "West" -> west[sq_idx]
      [] orientation = "NorthWest" -> north_west[sq_idx]

\* Orientation::antipode
antipode(o) ==
    CASE o = "North" -> "South"
      [] o = "NorthEast" -> "SouthWest"
      [] o = "East" -> "West"
      [] o = "SouthEast" -> "NorthWest"
      [] o = "South" -> "North"
      [] o = "SouthWest" -> "NorthEast"
      [] o = "West" -> "East"
      [] o = "NorthWest" -> "SouthEast"

\* Orientation::axis
axis(o) ==
    CASE o = "North" -> "File"
      [] o = "NorthEast" -> "Diagonal"
      [] o = "East" -> "Rank"
      [] o = "SouthEast" -> "AntiDiagonal"
      [] o = "South" -> "File"
      [] o = "SouthWest" -> "Diagonal"
      [] o = "West" -> "Rank"
      [] o = "NorthWest" -> "AntiDiagonal"

-----------------------------------------------------------------------------
(* moves.rs: directional attacks (dumb7fill)                               *)

\* flood |= (flood shifted one step in orientation o) & mask
flood_step(o, flood, mask) ==
    CASE o = "North" -> Or(flood, And(Shl(flood, 8), mask))
      [] o = "NorthEast" -> Or(flood, And(Shl(flood, 9), mask))
      [] o = "East" -> Or(flood, And(Shl(flood, 1), mask))
      [] o = "SouthEast" -> Or(flood, And(Shr(flood, 7), mask))
      [] o = "South" -> Or(flood, And(Shr(flood, 8), mask))
      [] o = "SouthWest" -> Or(flood, And(Shr(flood, 9), mask))
      [] o = "West" -> Or(flood, And(Shr(flood, 1), mask))
      [] o = "NorthWest" -> Or(flood, And(Shl(flood, 7), mask))

\* for _ in 0..n { the step }
RECURSIVE flood_loop(_, _, _, _)
flood_loop(o, flood, mask, n) ==
    IF n = 0 THEN flood ELSE flood_loop(o, flood_step(o, flood, mask), mask, n - 1)

north_attacks(sliders, empty) ==
    Shl(flood_loop("North", sliders, empty, 7), 8)

north_east_attacks(sliders, empty) ==
    LET mask == And(empty, clear_file[0])
    IN  And(Shl(flood_loop("NorthEast", sliders, mask, 7), 9), clear_file[0])

\* the east flood without the a-file masks
east_attacks_wrapping(sliders, empty) ==
    Shl(flood_loop("East", sliders, empty, 7), 1)

east_attacks(sliders, empty) ==
    LET mask == And(empty, clear_file[0])
    IN  And(Shl(flood_loop("East", sliders, mask, 7), 1), clear_file[0])

south_east_attacks(sliders, empty) ==
    LET mask == And(empty, clear_file[0])
    IN  And(Shr(flood_loop("SouthEast", sliders, mask, 7), 7), clear_file[0])

south_attacks(sliders, empty) ==
    Shr(flood_loop("South", sliders, empty, 7), 8)

south_west_attacks(sliders, empty) ==
    LET mask == And(empty, clear_file[7])
    IN  And(Shr(flood_loop("SouthWest", sliders, mask, 7), 9), clear_file[7])

west_attacks(sliders, empty) ==
    LET mask == And(empty, clear_file[7])
    IN  And(Shr(flood_loop("West", sliders, mask, 7), 1), clear_file[7])

north_west_attacks(sliders, empty) ==
    LET mask == And(empty, clear_file[7])
    IN  And(Shl(flood_loop("NorthWest", sliders, mask, 7), 7), clear_file[7])

-----------------------------------------------------------------------------
(* The Board that moves.rs reads (spec.md sections 3 and 4.3)              *)

NoPiece == "None"
Pieces == {"Pawn", "Bishop", "Knight", "Rook", "King", "Queen"}

FullRights == [kingside |-> TRUE, queenside |-> TRUE]

\* the Board constructor: the standard starting position, full castling
\* rights on both sides, flipped = false
new_board ==
    [own_pieces |-> 0..15,
     opp_pieces |-> 48..63,
     ortho_sliders |-> {0, 7, 56, 63} \cup {3, 59},
     diag_sliders |-> {2, 5, 58, 61} \cup {3, 59},
     pawns |-> (8..15) \cup (48..55),
     own_king |-> 4,
     opp_king |-> 60,
     own_castling_rights |-> FullRights,
     opp_castling_rights |-> FullRights,
     flipped |-> FALSE]

rooks(b) == And(b.ortho_sliders, Not(b.diag_sliders))
bishops(b) == And(b.diag_sliders, Not(b.ortho_sliders))
queens(b) == And(b.ortho_sliders, b.diag_sliders)
kings(b) == Or(Bit(b.own_king), Bit(b.opp_king))
knights(b) ==
    And(Or(b.own_pieces, b.opp_pieces),
        Not(Or(Or(b.ortho_sliders, b.diag_sliders), Or(b.pawns, kings(b)))))
empty(b) == Not(Or(b.own_pieces, b.opp_pieces))
color(b) == IF b.flipped THEN "Black" ELSE "White"

\* pawns, then rooks, bishops, queens, kings, defaulting to knight
identify(b, sq) ==
    IF sq \in b.pawns THEN "Pawn"
    ELSE IF sq \in rooks(b) THEN "Rook"
    ELSE IF sq \in bishops(b) THEN "Bishop"
    ELSE IF sq \in queens(b) THEN "Queen"
    ELSE IF sq \in kings(b) THEN "King"
    ELSE "Knight"

-----------------------------------------------------------------------------
(* moves.rs: decomposition of move bitboards into (from, to) pairs         *)

RECURSIVE Flatten(_)
Flatten(ss) == IF ss = <<>> THEN <<>> ELSE Head(ss) \o Flatten(Tail(ss))

Reverse(seq) == [i \in 1..Len(seq) |-> seq[Len(seq) + 1 - i]]

parse_single_piece_moves(moves, piece_idx) ==
    LET ser == serialize_board(moves)
    IN  [i \in 1..Len(ser) |-> <<piece_idx, ser[i]>>]

parse_horizontal_moves(moves, pieces) ==
    LET piece_idxs == serialize_board(pieces)
    IN  Flatten([i \in 1..Len(piece_idxs) |->
            parse_single_piece_moves(
                And(moves, mask_rank[rank_index(piece_idxs[i])]), piece_idxs[i])])

parse_vertical_moves(moves, pieces) ==
    LET piece_idxs == serialize_board(pieces)
    IN  Flatten([i \in 1..Len(piece_idxs) |->
            parse_single_piece_moves(
                And(moves, mask_file[file_index(piece_idxs[i])]), piece_idxs[i])])

parse_diagonal_moves(moves, pieces) ==
    LET piece_idxs == serialize_board(pieces)
    IN  Flatten([i \in 1..Len(piece_idxs) |->
            parse_single_piece_moves(
                And(moves, mask_diag[diag_index(piece_idxs[i])]), piece_idxs[i])])

parse_anti_diagonal_moves(moves, pieces) ==
    LET piece_idxs == serialize_board(pieces)
    IN  Flatten([i \in 1..Len(piece_idxs) |->
            parse_single_piece_moves(
                And(moves, mask_anti_diag[anti_diag_index(piece_idxs[i])]),
                piece_idxs[i])])

\* utils.rs: the Some values of arr in index order
RECURSIVE bad_argsort_from(_, _, _)
bad_argsort_from(arr, idx, sorted_vals) ==
    IF idx > Len(arr) THEN sorted_vals
    ELSE bad_argsort_from(arr, idx + 1,
             IF arr[idx].some THEN Append(sorted_vals, arr[idx].val)
             ELSE sorted_vals)

bad_argsort(arr) == bad_argsort_from(arr, 1, <<>>)

\* the slot of axis_wise a piece is written to (slot k of the source's
\* 0-based array is element k + 1 of the sequence)
axis_slot(orientation, piece_idx) ==
    CASE axis(orientation) = "Rank" -> file_index(piece_idx)
      [] axis(orientation) = "File" -> rank_index(piece_idx)
      [] axis(orientation) = "Diagonal" -> anti_diag_index(piece_idx)
      [] axis(orientation) = "AntiDiagonal" -> diag_index(piece_idx)

RECURSIVE axis_wise_loop(_, _, _, _)
axis_wise_loop(axis_wise, piece_idxs, i, orientation) ==
    IF i > Len(piece_idxs) THEN axis_wise
    ELSE axis_wise_loop(
             [axis_wise EXCEPT ![axis_slot(orientation, piece_idxs[i]) + 1] =
                 Some(piece_idxs[i])],
             piece_idxs, i + 1, orientation)

\* sorted_piece_idxs of parse_sliding_moves, after the reversal
sorted_piece_idxs(pieces, orientation) ==
    LET piece_idxs == serialize_board(pieces)
        axis_wise == axis_wise_loop([k \in 1..15 |-> None], piece_idxs, 1,
                                    orientation)
        sorted == bad_argsort(axis_wise)
    IN  IF orientation \in {"North", "East", "NorthEast", "NorthWest"}
        THEN Reverse(sorted) ELSE sorted

\* sorted_piece_idxs[0] is read without a length check: an index out of
\* bounds when no piece was given
parse_sliding_moves_panics(pieces, orientation) ==
    sorted_piece_idxs(pieces, orientation) = <<>>

\* the decomposition with every piece given its whole forward ray
parse_sliding_moves_forward_only(moves, pieces, orientation) ==
    LET sorted == sorted_piece_idxs(pieces, orientation)
        masks == [idx \in 1..Len(sorted) |-> ray(sorted[idx], orientation)]
    IN  Flatten([idx \in 1..Len(sorted) |->
            parse_single_piece_moves(And(masks[idx], moves), sorted[idx])])

parse_sliding_moves(moves, pieces, orientation) ==
    LET sorted == sorted_piece_idxs(pieces, orientation)
        masks == [idx \in 1..Len(sorted) |->
                    IF idx = 1 THEN ray(sorted[1], orientation)
                    ELSE And(ray(sorted[idx], orientation),
                             ray(sorted[idx - 1], antipode(orientation)))]
    IN  Flatten([idx \in 1..Len(sorted) |->
            parse_single_piece_moves(And(masks[idx], moves), sorted[idx])])

-----------------------------------------------------------------------------
(* moves.rs: the generators                                                *)

Move(from, to, piece, col, capture, category) ==
    [from |-> from, to |-> to, piece |-> piece, color |-> col,
     capture |-> capture, category |-> category]

\* the pushes of the first flood only
pawn_pushes_single(b) ==
    LET own_pawns == And(b.own_pieces, b.pawns)
        flood == And(Shl(own_pawns, 8), empty(b))
        pushes == parse_vertical_moves(flood, own_pawns)
    IN  [i \in 1..Len(pushes) |->
            Move(pushes[i][1], pushes[i][2], "Pawn", color(b), NoPiece, "Normal")]

pawn_pushes(b) ==
    LET own_pawns == And(b.own_pieces, b.pawns)
        flood1 == And(Shl(own_pawns, 8), empty(b))
        flood == Or(flood1, And(Shl(flood1, 8), empty(b)))
        pushes == parse_vertical_moves(flood, own_pawns)
    IN  [i \in 1..Len(pushes) |->
            Move(pushes[i][1], pushes[i][2], "Pawn", color(b), NoPiece, "Normal")]

pawn_captures(b) ==
    LET own_pawns == And(b.own_pieces, b.pawns)
        right_moves == And(Shl(own_pawns, 9), clear_file[0])
        right_captures ==
            parse_diagonal_moves(And(right_moves, b.opp_pieces), own_pawns)
        left_moves == And(Shl(own_pawns, 7), clear_file[7])
        left_captures ==
            parse_anti_diagonal_moves(And(left_moves, b.opp_pieces), own_pawns)
        pairs == right_captures \o left_captures
    IN  [i \in 1..Len(pairs) |->
            Move(pairs[i][1], pairs[i][2], "Pawn", color(b),
                 identify(b, pairs[i][2]), "Normal")]

\* knight_moves, with the piece type its moves are labelled with
knight_moves_as(b, piece) ==
    LET own_knights == And(knights(b), b.own_pieces)
        ser == serialize_board(own_knights)
        of_knight(knight_idx) ==
            LET movement == knight_movement[knight_idx]
                moves == And(movement, empty(b))
                captures == And(movement, b.opp_pieces)
                quiet == parse_single_piece_moves(moves, knight_idx)
                capturing == parse_single_piece_moves(captures, knight_idx)
            IN  [i \in 1..Len(quiet) |->
                    Move(quiet[i][1], quiet[i][2], piece, color(b),
                         NoPiece, "Normal")]
                \o [i \in 1..Len(capturing) |->
                    Move(capturing[i][1], capturing[i][2], piece, color(b),
                         identify(b, capturing[i][2]), "Normal")]
    IN  Flatten([k \in 1..Len(ser) |-> of_knight(ser[k])])

\* the quiet moves taken as movement & !opp_pieces, as the sliding
\* generators take them
knight_moves_onto_own(b) ==
    LET own_knights == And(knights(b), b.own_pieces)
        ser == serialize_board(own_knights)
        of_knight(knight_idx) ==
            LET movement == knight_movement[knight_idx]
                moves == And(movement, Not(b.opp_pieces))
                captures == And(movement, b.opp_pieces)
                quiet == parse_single_piece_moves(moves, knight_idx)
                capturing == parse_single_piece_moves(captures, knight_idx)
            IN  [i \in 1..Len(quiet) |->
                    Move(quiet[i][1], quiet[i][2], "Knight", color(b),
                         NoPiece, "Normal")]
                \o [i \in 1..Len(capturing) |->
                    Move(capturing[i][1], capturing[i][2], "Knight", color(b),
                         identify(b, capturing[i][2]), "Normal")]
    IN  Flatten([k \in 1..Len(ser) |-> of_knight(ser[k])])

knight_moves_labelled_king(b) == knight_moves_as(b, "King")
knight_moves(b) == knight_moves_as(b, "Knight")

\* both loops of king_moves iterate over `moves`; `captures` is computed
\* and never read
king_moves(b) ==
    LET king_idx == b.own_king
        movement == king_movement[king_idx]
        moves == And(movement, empty(b))
        captures == And(movement, b.opp_pieces)
        quiet == parse_single_piece_moves(moves, king_idx)
        capturing == parse_single_piece_moves(moves, king_idx)
    IN  [i \in 1..Len(quiet) |->
            Move(quiet[i][1], quiet[i][2], "King", color(b), NoPiece, "Normal")]
        \o [i \in 1..Len(capturing) |->
            Move(capturing[i][1], capturing[i][2], "King", color(b),
                 identify(b, capturing[i][2]), "Normal")]

\* the kingside clearance taken as square 5 only
castling_moves_short_clearance(b) ==
    LET occupied == Or(b.own_pieces, b.opp_pieces)
        kingside_clearance == Bit(5)
        queenside_clearance == Or(Or(Bit(1), Bit(2)), Bit(3))
    IN  (IF b.own_castling_rights.kingside
            /\ And(occupied, kingside_clearance) = {}
         THEN <<Move(4, 6, "King", color(b), NoPiece, "Kingside")>>
         ELSE <<>>)
        \o (IF b.own_castling_rights.queenside
               /\ And(occupied, queenside_clearance) = {}
            THEN <<Move(4, 2, "King", color(b), NoPiece, "Queenside")>>
            ELSE <<>>)

castling_moves(b) ==
    LET occupied == Or(b.own_pieces, b.opp_pieces)
        kingside_clearance == Or(Bit(5), Bit(6))
        queenside_clearance == Or(Or(Bit(1), Bit(2)), Bit(3))
    IN  (IF b.own_castling_rights.kingside
            /\ And(occupied, kingside_clearance) = {}
         THEN <<Move(4, 6, "King", color(b), NoPiece, "Kingside")>>
         ELSE <<>>)
        \o (IF b.own_castling_rights.queenside
               /\ And(occupied, queenside_clearance) = {}
            THEN <<Move(4, 2, "King", color(b), NoPiece, "Queenside")>>
            ELSE <<>>)

\* the second half of ortho_moves and diag_moves: quiet moves first, then
\* captures; Queen when the from-square is a queen, else `other`
sliding_move_list(b, moves, captures, other) ==
    [i \in 1..Len(moves) |->
        Move(moves[i][1], moves[i][2],
             IF moves[i][1] \in queens(b) THEN "Queen" ELSE other,
             color(b), NoPiece, "Normal")]
    \o [i \in 1..Len(captures) |->
        Move(captures[i][1], captures[i][2],
             IF captures[i][1] \in queens(b) THEN "Queen" ELSE other,
             color(b), identify(b, captures[i][2]), "Normal")]

\* the attack set of one orientation
attacks(o, sliders, emp) ==
    CASE o = "North" -> north_attacks(sliders, emp)
      [] o = "NorthEast" -> north_east_attacks(sliders, emp)
      [] o = "East" -> east_attacks(sliders, emp)
      [] o = "SouthEast" -> south_east_attacks(sliders, emp)
      [] o = "South" -> south_attacks(sliders, emp)
      [] o = "SouthWest" -> south_west_attacks(sliders, emp)
      [] o = "West" -> west_attacks(sliders, emp)
      [] o = "NorthWest" -> north_west_attacks(sliders, emp)

\* the captures and the quiet moves of one orientation, as (from, to) pairs
sliding_captures(b, o, sliders) ==
    parse_sliding_moves(And(attacks(o, sliders, empty(b)), b.opp_pieces),
                        sliders, o)
sliding_quiet(b, o, sliders) ==
    parse_sliding_moves(And(attacks(o, sliders, empty(b)), Not(b.opp_pieces)),
                        sliders, o)

\* the first parse_sliding_moves call indexes an empty vector when the
\* board has no orthogonal slider
ortho_moves_panics(b) == parse_sliding_moves_panics(b.ortho_sliders, "North")

ortho_moves(b) ==
    LET os == <<"North", "East", "South", "West">>
        captures == Flatten([i \in 1..4 |->
                        sliding_captures(b, os[i], b.ortho_sliders)])
        moves == Flatten([i \in 1..4 |->
                        sliding_quiet(b, os[i], b.ortho_sliders)])
    IN  sliding_move_list(b, moves, captures, "Rook")

\* diag_moves passes board.ortho_sliders as the sliders of every call
diag_moves_panics(b) ==
    parse_sliding_moves_panics(b.ortho_sliders, "NorthEast")

diag_moves(b) ==
    LET os == <<"NorthEast", "SouthEast", "SouthWest", "NorthWest">>
        captures == Flatten([i \in 1..4 |->
                        sliding_captures(b, os[i], b.ortho_sliders)])
        moves == Flatten([i \in 1..4 |->
                        sliding_quiet(b, os[i], b.ortho_sliders)])
    IN  sliding_move_list(b, moves, captures, "Bishop")

psuedo_legal_moves(b) ==
    pawn_pushes(b) \o pawn_captures(b) \o ortho_moves(b) \o diag_moves(b)
    \o knight_moves(b) \o king_moves(b)

Generators ==
    {"pawn_pushes", "pawn_captures", "ortho_moves", "diag_moves",
     "knight_moves", "king_moves", "castling_moves"}

\* the generator call aborts the program
generator_panics(gen, b) ==
    CASE gen = "ortho_moves" -> ortho_moves_panics(b)
      [] gen = "diag_moves" -> diag_moves_panics(b)
      [] OTHER -> FALSE

generate(gen, b) ==
    CASE gen = "pawn_pushes" -> pawn_pushes(b)
      [] gen = "pawn_captures" -> pawn_captures(b)
      [] gen = "ortho_moves" -> ortho_moves(b)
      [] gen = "diag_moves" -> diag_moves(b)
      [] gen = "knight_moves" -> knight_moves(b)
      [] gen = "king_moves" -> king_moves(b)
      [] gen = "castling_moves" -> castling_moves(b)

-----------------------------------------------------------------------------
(* Board mutation (spec.md sections 4.3 and 4.4)                           *)

\* the type bitboards a piece of type p is recorded in
toggles_ortho(p) == p \in {"Rook", "Queen"}
toggles_diag(p) == p \in {"Bishop", "Queen"}
toggles_pawns(p) == p = "Pawn"

\* x ^= 1 << sq when cond
ToggleIf(cond, x, sq) == IF cond THEN Xor(x, Bit(sq)) ELSE x

\* the reversible part of a move: XOR-toggles of the from and to bits
move_involution(b, m) ==
    LET captured == m.capture # NoPiece
        type_toggle(x, moves_it, captured_in_it) ==
            ToggleIf(captured /\ captured_in_it,
                     IF moves_it THEN Xor(Xor(x, Bit(m.from)), Bit(m.to)) ELSE x,
                     m.to)
    IN  [b EXCEPT
            !.own_pieces = Xor(Xor(@, Bit(m.from)), Bit(m.to)),
            !.opp_pieces = ToggleIf(captured, @, m.to),
            !.ortho_sliders =
                type_toggle(@, toggles_ortho(m.piece), toggles_ortho(m.capture)),
            !.diag_sliders =
                type_toggle(@, toggles_diag(m.piece), toggles_diag(m.capture)),
            !.pawns =
                type_toggle(@, toggles_pawns(m.piece), toggles_pawns(m.capture))]

\* UndoInfo: both castling-rights pairs
undo_info(b) ==
    [own_castling_rights |-> b.own_castling_rights,
     opp_castling_rights |-> b.opp_castling_rights]

\* the castling rights after move m: the king's move clears both of the
\* mover's rights, a rook leaving a1 / h1 the mover's queenside / kingside
\* right, a rook captured on a8 / h8 the opponent's
own_rights_recomputed(rights, m) ==
    [kingside |-> m.piece # "King" /\ ~(m.piece = "Rook" /\ m.from = 7),
     queenside |-> m.piece # "King" /\ ~(m.piece = "Rook" /\ m.from = 0)]
own_rights_after(rights, m) ==
    [kingside |-> rights.kingside /\ m.piece # "King"
                    /\ ~(m.piece = "Rook" /\ m.from = 7),
     queenside |-> rights.queenside /\ m.piece # "King"
                    /\ ~(m.piece = "Rook" /\ m.from = 0)]

opp_rights_after(rights, m) ==
    [kingside |-> rights.kingside /\ ~(m.capture = "Rook" /\ m.to = 63),
     queenside |-> rights.queenside /\ ~(m.capture = "Rook" /\ m.to = 56)]

\* make_move(move) -> UndoInfo; the result pairs the board with the UndoInfo
Board_make_move(b, m) ==
    LET toggled == move_involution(b, m)
        undo == undo_info(b)
    IN  [board |->
            [toggled EXCEPT
                !.own_king = IF m.piece = "King" THEN m.to ELSE @,
                !.own_castling_rights = own_rights_after(@, m),
                !.opp_castling_rights = opp_rights_after(@, m)],
         undo |-> undo]

Board_unmake_move(b, m, undo) ==
    [move_involution(b, m) EXCEPT
        !.own_king = IF m.piece = "King" THEN m.from ELSE @,
        !.own_castling_rights = undo.own_castling_rights,
        !.opp_castling_rights = undo.opp_castling_rights]

\* u64::swap_bytes: byte i (rank i) goes to byte 7 - i
byte_reverse(x) == {(7 - (s \div 8)) * 8 + (s % 8) : s \in x}

color_flip_unreversed_opp(b) ==
    [own_pieces |-> byte_reverse(b.opp_pieces),
     opp_pieces |-> b.own_pieces,
     ortho_sliders |-> byte_reverse(b.ortho_sliders),
     diag_sliders |-> byte_reverse(b.diag_sliders),
     pawns |-> byte_reverse(b.pawns),
     own_king |-> flip_square_index(b.opp_king),
     opp_king |-> flip_square_index(b.own_king),
     own_castling_rights |-> b.opp_castling_rights,
     opp_castling_rights |-> b.own_castling_rights,
     flipped |-> ~b.flipped]
color_flip(b) ==
    [own_pieces |-> byte_reverse(b.opp_pieces),
     opp_pieces |-> byte_reverse(b.own_pieces),
     ortho_sliders |-> byte_reverse(b.ortho_sliders),
     diag_sliders |-> byte_reverse(b.diag_sliders),
     pawns |-> byte_reverse(b.pawns),
     own_king |-> flip_square_index(b.opp_king),
     opp_king |-> flip_square_index(b.own_king),
     own_castling_rights |-> b.opp_castling_rights,
     opp_castling_rights |-> b.own_castling_rights,
     flipped |-> ~b.flipped]

-----------------------------------------------------------------------------
(* board.rs: the array board, make_move and unmake_move                    *)

\* Color::board_index and Piece::board_index
color_board_index(c) == IF c = "White" THEN 0 ELSE 1
piece_board_index(p) ==
    CASE p = "Pawn" -> 2
      [] p = "Bishop" -> 3
      [] p = "Knight" -> 4
      [] p = "Rook" -> 5
      [] p = "King" -> 6
      [] p = "Queen" -> 7

\* Board::initialize: the bitboard array
initial_bitboard ==
    [i \in 0..7 |->
        CASE i = 0 -> WHITE_PIECES
          [] i = 1 -> BLACK_PIECES
          [] i = 2 -> PAWNS
          [] i = 3 -> BISHOPS
          [] i = 4 -> KNIGHTS
          [] i = 5 -> ROOKS
          [] i = 6 -> KINGS
          [] i = 7 -> QUEENS]

\* board[i] ^= 1 << sq
ArrToggle(arr, i, sq) == [arr EXCEPT ![i] = Xor(@, Bit(sq))]

\* make_move without the toggle of the captured piece's type bitboard
make_move_keeping_captured_type(arr, m) ==
    LET mover == color_board_index(m.color)
        other == 1 - mover
        a1 == ArrToggle(ArrToggle(arr, mover, m.from), mover, m.to)
        a2 == IF m.capture # NoPiece THEN ArrToggle(a1, other, m.to) ELSE a1
    IN  ArrToggle(ArrToggle(a2, piece_board_index(m.piece), m.from),
                  piece_board_index(m.piece), m.to)

make_move(arr, m) ==
    LET mover == color_board_index(m.color)
        other == 1 - mover
        a1 == ArrToggle(ArrToggle(arr, mover, m.from), mover, m.to)
        a2 == IF m.capture # NoPiece THEN ArrToggle(a1, other, m.to) ELSE a1
        a3 == IF m.capture # NoPiece
              THEN ArrToggle(a2, piece_board_index(m.capture), m.to) ELSE a2
    IN  ArrToggle(ArrToggle(a3, piece_board_index(m.piece), m.from),
                  piece_board_index(m.piece), m.to)

\* xor is its own inverse operation: unmake_move calls make_move
unmake_move(arr, m) == make_move(arr, m)

-----------------------------------------------------------------------------
(* The Board under generate / make_move / unmake_move / color_flip         *)

\* the board after the move from -> to that generator gen returns for b has
\* been made (defined only when gen returns such a move for b)
played(b, gen, from, to) ==
    CHOOSE after \in UNION {
        {Board_make_move(bb, list[j]).board :
            j \in {k \in 1..Len(list) : list[k].from = from /\ list[k].to = to}} :
        bb \in {b}, list \in {generate(gen, b)}} : TRUE

\* Positions the analysis starts from: the starting position and positions
\* reached from it by generated moves.
StartBoards ==
    {new_board,
     \* d2-d3: the king has an empty neighbour
     played(new_board, "pawn_pushes", 11, 19),
     \* the h1 rook's move to h2: the kingside right is gone
     played(new_board, "ortho_moves", 7, 15),
     \* a2-a4, a4-a6: a pawn capture is available
     played(played(new_board, "pawn_pushes", 8, 24), "pawn_pushes", 24, 40)}

NoBoard == <<>>

InitGame ==
    /\ board \in StartBoards
    /\ ply = 0
    /\ stack = <<>>
    /\ lastOp = "new"
    /\ flips = <<>>
    /\ undone = NoBoard

\* one of the generators is called on the board and one of the moves it
\* returned is applied
MakeMove ==
    /\ ply < MaxPly
    /\ \E gen \in Generators :
        /\ ~generator_panics(gen, board)
        /\ \E list \in {generate(gen, board)} :
            \E i \in 1..Len(list) :
                \E r \in {Board_make_move(board, list[i])} :
                    /\ board' = r.board
                    /\ stack' = Append(stack,
                                    [m |-> list[i], undo |-> r.undo,
                                     before |-> board, after |-> r.board])
    /\ ply' = ply + 1
    /\ lastOp' = "make_move"
    /\ flips' = <<>>
    /\ undone' = NoBoard

\* the last move made is taken back, on the board its make_move produced
UnmakeMove ==
    /\ stack # <<>>
    /\ LET top == stack[Len(stack)]
       IN  /\ board = top.after
           /\ board' = Board_unmake_move(board, top.m, top.undo)
           /\ undone' = top.before
    /\ stack' = SubSeq(stack, 1, Len(stack) - 1)
    /\ ply' = ply - 1
    /\ lastOp' = "unmake_move"
    /\ flips' = <<>>

\* flips keeps the boards before the last two color_flip calls of a run of
\* consecutive color_flip calls
ColorFlip ==
    /\ board' = color_flip(board)
    /\ flips' = IF Len(flips) = 2 THEN <<flips[2], board>>
                ELSE Append(flips, board)
    /\ lastOp' = "color_flip"
    /\ undone' = NoBoard
    /\ UNCHANGED <<ply, stack>>

-----------------------------------------------------------------------------
(* The array board of board.rs under make_move / unmake_move               *)

InitArr ==
    /\ bitboard = initial_bitboard
    /\ arrPly = 0
    /\ arrStack = <<>>

\* the piece type recorded for square sq, NoPiece when none is
arr_piece_at(arr, sq) ==
    IF \E p \in Pieces : sq \in arr[piece_board_index(p)]
    THEN CHOOSE p \in Pieces : sq \in arr[piece_board_index(p)]
    ELSE NoPiece

\* the moves consistent with the array board: from holds the mover's piece
\* of type piece; to is empty (capture None) or holds an opponent piece of
\* type capture
ArrMoves(arr) ==
    {Move(from, to, arr_piece_at(arr, from), c,
          IF to \in arr[1 - color_board_index(c)]
          THEN arr_piece_at(arr, to) ELSE NoPiece,
          "Normal") :
        <<c, from, to>> \in
            {x \in {"White", "Black"} \X Squares \X Squares :
                /\ x[2] % 8 < ArrFiles
                /\ x[3] % 8 < ArrFiles
                /\ x[2] \in arr[color_board_index(x[1])]
                /\ arr_piece_at(arr, x[2]) # NoPiece
                /\ x[3] \notin arr[color_board_index(x[1])]
                /\ (x[3] \in arr[1 - color_board_index(x[1])]
                        => arr_piece_at(arr, x[3]) # NoPiece)}}

ArrMakeMove ==
    /\ arrPly < ArrMaxPly
    /\ \E m \in ArrMoves(bitboard) :
        /\ bitboard' = make_move(bitboard, m)
        /\ arrStack' = Append(arrStack, [m |-> m, before |-> bitboard])
    /\ arrPly' = arrPly + 1

ArrUnmakeMove ==
    /\ arrStack # <<>>
    /\ bitboard' = unmake_move(bitboard, arrStack[Len(arrStack)].m)
    /\ arrStack' = SubSeq(arrStack, 1, Len(arrStack) - 1)
    /\ arrPly' = arrPly - 1

-----------------------------------------------------------------------------
(* The pure functions, applied to inputs drawn from bounded sets           *)

\* the bitboards with at most n set bits
RECURSIVE BitboardsUpTo(_)
BitboardsUpTo(n) ==
    IF n = 0 THEN {{}}
    ELSE LET smaller == BitboardsUpTo(n - 1)
         IN  smaller \cup {S \cup {x} : S \in smaller, x \in Squares}

\* sparse bitboards, their complements, and the initial bitboards
BitboardInputs ==
    BitboardsUpTo(MaxBits)
    \cup {Not(S) : S \in BitboardsUpTo(1)}
    \cup {initial_bitboard[i] : i \in 0..7}

\* squares sliders are put on: the corners, and squares that share a rank,
\* a file, a diagonal or an anti-diagonal with another one
SliderSquares == {0, 7, 27, 31, 35, 36, 56, 63}

\* an orientation, one to MaxBits sliders, and an empty set that leaves out
\* the sliders and at most one more square
SliderInputs ==
    {[kind |-> "sliders", o |-> o, sliders |-> S, empty |-> Not(Or(S, B))] :
        o \in Orientations,
        S \in {T \in BitboardsUpTo(MaxBits) : T # {} /\ T \subseteq SliderSquares},
        B \in BitboardsUpTo(1)}

FnInputs ==
    [kind : {"square"}, sq : Squares]
    \cup [kind : {"bitboard"}, bb : BitboardInputs]
    \cup [kind : {"ray"}, sq : Squares, o : Orientations]
    \cup [kind : {"args"}, x : 0..MaxIdx, y : 0..MaxIdx]
    \cup SliderInputs

NoResult == [panic |-> FALSE]

InitFn ==
    /\ fnIn \in FnInputs
    /\ fnOp = "none"
    /\ fnOut = NoResult

\* rank_idx and file_idx of a square, and square_idx of the two
ApplySquareIdx ==
    /\ fnOp = "none"
    /\ fnIn.kind = "square"
    /\ fnOp' = "square_idx"
    /\ LET rank == rank_idx(fnIn.sq)
           file == file_idx(fnIn.sq)
       IN  fnOut' = IF square_idx_ok(rank, file)
                    THEN [panic |-> FALSE, rank |-> rank, file |-> file,
                          index |-> square_idx(rank, file)]
                    ELSE [panic |-> TRUE]
    /\ UNCHANGED fnIn

ApplyBitscan ==
    /\ fnOp = "none"
    /\ fnIn.kind = "bitboard"
    /\ fnOp' = "bitscan_lsd"
    /\ fnOut' = bitscan_lsd(fnIn.bb)
    /\ UNCHANGED fnIn

ApplySerialize ==
    /\ fnOp = "none"
    /\ fnIn.kind = "bitboard"
    /\ fnOp' = "serialize_board"
    /\ fnOut' = serialize_board(fnIn.bb)
    /\ UNCHANGED fnIn

ApplyRay ==
    /\ fnOp = "none"
    /\ fnIn.kind = "ray"
    /\ fnOp' = "ray"
    /\ fnOut' = ray(fnIn.sq, fnIn.o)
    /\ UNCHANGED fnIn

\* the knight jump mask of a square is looked up
ApplyKnightMovement ==
    /\ fnOp = "none"
    /\ fnIn.kind = "square"
    /\ fnOp' = "knight_movement"
    /\ fnOut' = knight_movement[fnIn.sq]
    /\ UNCHANGED fnIn

-----------------------------------------------------------------------------
(* The generators, applied to boards drawn from a bounded set              *)

\* the two kings on their home squares and nothing else
kings_only ==
    [own_pieces |-> {4},
     opp_pieces |-> {60},
     ortho_sliders |-> {},
     diag_sliders |-> {},
     pawns |-> {},
     own_king |-> 4,
     opp_king |-> 60,
     own_castling_rights |-> [kingside |-> FALSE, queenside |-> FALSE],
     opp_castling_rights |-> [kingside |-> FALSE, queenside |-> FALSE],
     flipped |-> FALSE]

\* board b with a piece of type piece added on the empty square sq for the
\* mover (side "own") or the opponent (side "opp"); a rook added on its
\* home square a1 / a8 comes with the queenside right of its side
place(b, sq, piece, side) ==
    [b EXCEPT
        !.own_pieces = IF side = "own" THEN Or(@, Bit(sq)) ELSE @,
        !.opp_pieces = IF side = "opp" THEN Or(@, Bit(sq)) ELSE @,
        !.ortho_sliders = IF toggles_ortho(piece) THEN Or(@, Bit(sq)) ELSE @,
        !.diag_sliders = IF toggles_diag(piece) THEN Or(@, Bit(sq)) ELSE @,
        !.pawns = IF toggles_pawns(piece) THEN Or(@, Bit(sq)) ELSE @,
        !.own_castling_rights.queenside =
            @ \/ (side = "own" /\ piece = "Rook" /\ sq = 0),
        !.opp_castling_rights.queenside =
            @ \/ (side = "opp" /\ piece = "Rook" /\ sq = 56)]

PieceSquares == <<0, 24, 12, 20, 28, 13, 56, 27, 5, 59>>

\* a piece on a square: no pawn stands on the first or the last rank
Placements ==
    {pl \in [sq : {PieceSquares[i] : i \in 1..NumSquares},
             piece : Pieces \ {"King"},
             side : {"own", "opp"}] :
        pl.piece = "Pawn" => pl.sq \div 8 \in 1..6}

\* the two kings and at most two more pieces
SparseBoards ==
    {kings_only}
    \cup {place(kings_only, p.sq, p.piece, p.side) : p \in Placements}
    \cup {place(place(kings_only, p.sq, p.piece, p.side), q.sq, q.piece, q.side) :
            <<p, q>> \in {pq \in Placements \X Placements : pq[1].sq < pq[2].sq}}

\* the mover's king and both rooks on their home squares with any
\* combination of the mover's two rights, and at most one knight of either
\* side on a square between the king and a rook
CastlingBoards ==
    {[bb EXCEPT !.own_castling_rights = rights] :
        rights \in [kingside : BOOLEAN, queenside : BOOLEAN],
        bb \in {place(place(kings_only, 0, "Rook", "own"), 7, "Rook", "own")}
               \cup {place(place(place(kings_only, 0, "Rook", "own"),
                                 7, "Rook", "own"), sq, "Knight", side) :
                        sq \in {1, 2, 3, 5, 6}, side \in {"own", "opp"}}}

\* squares own pawns are put on (a2, e2, g2, h2, f3: two of them share a
\* diagonal, two an anti-diagonal, two stand on the edge files) and the
\* squares one diagonal step ahead of them, across the edge included
PawnSquares == {8, 12, 14, 15, 21}
PawnTargets == {15, 17, 19, 21, 22, 23, 24, 28, 30}

\* the two kings, one or two own pawns and one opponent knight or pawn
PawnBoards ==
    {place(bb, t, piece, "opp") :
        piece \in {"Knight", "Pawn"},
        t \in PawnTargets,
        bb \in {place(kings_only, p, "Pawn", "own") : p \in PawnSquares}
               \cup {place(place(kings_only, pq[1], "Pawn", "own"),
                           pq[2], "Pawn", "own") :
                        pq \in {sq \in PawnSquares \X PawnSquares : sq[1] < sq[2]}}}

\* the positions a generator is called on: sparse boards, castling
\* positions, pawn positions, and the starting position seen by either side
BoardInputs ==
    SparseBoards \cup CastlingBoards
    \cup {b \in PawnBoards : And(b.own_pieces, b.opp_pieces) = {}}
    \cup {new_board, color_flip(new_board)}

InitGen ==
    /\ fnIn \in [kind : {"board"}, b : BoardInputs]
    /\ fnOp = "none"
    /\ fnOut = NoResult

\* one generator is called on the board; a call that aborts returns nothing
ApplyGenerator ==
    /\ fnOp = "none"
    /\ fnIn.kind = "board"
    /\ \E gen \in Generators :
        /\ fnOp' = gen
        /\ IF generator_panics(gen, fnIn.b)
           THEN fnOut' = [panic |-> TRUE]
           ELSE \E list \in {generate(gen, fnIn.b)} :
                    fnOut' = [panic |-> FALSE, moves |-> list]
    /\ UNCHANGED fnIn

-----------------------------------------------------------------------------
(* Specifications                                                          *)

Next ==
    \/ MakeMove /\ UNCHANGED <<arrVars, fnVars>>
    \/ UnmakeMove /\ UNCHANGED <<arrVars, fnVars>>
    \/ ColorFlip /\ UNCHANGED <<arrVars, fnVars>>

\* the variables of the other two machines are parked
ParkedArr == bitboard = initial_bitboard /\ arrPly = 0 /\ arrStack = <<>>
ParkedFn == fnIn = [kind |-> "none"] /\ fnOp = "none" /\ fnOut = NoResult
ParkedGame ==
    /\ board = new_board /\ ply = 0 /\ stack = <<>> /\ lastOp = "new"
    /\ flips = <<>> /\ undone = NoBoard

Init == InitGame /\ ParkedArr /\ ParkedFn

Spec == Init /\ [][Next]_vars

NextArr ==
    \/ ArrMakeMove /\ UNCHANGED <<gameVars, fnVars>>
    \/ ArrUnmakeMove /\ UNCHANGED <<gameVars, fnVars>>

InitArrBoard == InitArr /\ ParkedGame /\ ParkedFn

SpecArr == InitArrBoard /\ [][NextArr]_vars

\* square_idx(rank, file) is called with the two arguments
ApplySquareIdxCall ==
    /\ fnOp = "none"
    /\ fnIn.kind = "args"
    /\ fnOp' = "square_idx_call"
    /\ fnOut' = IF square_idx_ok(fnIn.x, fnIn.y)
                THEN [panic |-> FALSE, index |-> square_idx(fnIn.x, fnIn.y)]
                ELSE [panic |-> TRUE]
    /\ UNCHANGED fnIn

\* fill_rank or fill_file is called with the first argument
ApplyFill ==
    /\ fnOp = "none"
    /\ fnIn.kind = "args"
    /\ \/ /\ fnOp' = "fill_rank"
          /\ fnOut' = IF fill_rank_ok(fnIn.x)
                      THEN [panic |-> FALSE, bb |-> fill_rank(fnIn.x)]
                      ELSE [panic |-> TRUE]
       \/ /\ fnOp' = "fill_file"
          /\ fnOut' = IF fill_file_ok(fnIn.x)
                      THEN [panic |-> FALSE, bb |-> fill_file(fnIn.x)]
                      ELSE [panic |-> TRUE]
    /\ UNCHANGED fnIn

\* rank_range or file_range is called with (start, end) = (x, y)
ApplyRange ==
    /\ fnOp = "none"
    /\ fnIn.kind = "args"
    /\ \/ /\ fnOp' = "rank_range"
          /\ fnOut' = IF rank_range_panics(fnIn.x, fnIn.y)
                      THEN [panic |-> TRUE]
                      ELSE [panic |-> FALSE, bb |-> rank_range(fnIn.x, fnIn.y)]
       \/ /\ fnOp' = "file_range"
          /\ fnOut' = IF file_range_panics(fnIn.x, fnIn.y)
                      THEN [panic |-> TRUE]
                      ELSE [panic |-> FALSE, bb |-> file_range(fnIn.x, fnIn.y)]
    /\ UNCHANGED fnIn

\* the attack function of the orientation is called with (sliders, empty)
ApplyAttacks ==
    /\ fnOp = "none"
    /\ fnIn.kind = "sliders"
    /\ fnOp' = "attacks"
    /\ fnOut' = attacks(fnIn.o, fnIn.sliders, fnIn.empty)
    /\ UNCHANGED fnIn

\* the attacks of the orientation are computed for (sliders, empty) and
\* parse_sliding_moves splits them into the (from, to) pairs of the sliders
ApplyParseSlidingMoves ==
    /\ fnOp = "none"
    /\ fnIn.kind = "sliders"
    /\ fnOp' = "parse_sliding_moves"
    /\ IF parse_sliding_moves_panics(fnIn.sliders, fnIn.o)
       THEN fnOut' = [panic |-> TRUE]
       ELSE \E move_list \in {parse_sliding_moves(
                                  attacks(fnIn.o, fnIn.sliders, fnIn.empty),
                                  fnIn.sliders, fnIn.o)} :
                fnOut' = [panic |-> FALSE,
                          pairs |-> [i \in 1..Len(move_list) |-> move_list[i]]]
    /\ UNCHANGED fnIn

NextFn ==
    \/ ApplySquareIdx /\ UNCHANGED <<gameVars, arrVars>>
    \/ ApplyBitscan /\ UNCHANGED <<gameVars, arrVars>>
    \/ ApplySerialize /\ UNCHANGED <<gameVars, arrVars>>
    \/ ApplyRay /\ UNCHANGED <<gameVars, arrVars>>
    \/ ApplyKnightMovement /\ UNCHANGED <<gameVars, arrVars>>
    \/ ApplySquareIdxCall /\ UNCHANGED <<gameVars, arrVars>>
    \/ ApplyFill /\ UNCHANGED <<gameVars, arrVars>>
    \/ ApplyRange /\ UNCHANGED <<gameVars, arrVars>>
    \/ ApplyAttacks /\ UNCHANGED <<gameVars, arrVars>>
    \/ ApplyParseSlidingMoves /\ UNCHANGED <<gameVars, arrVars>>

InitFunctions == InitFn /\ ParkedGame /\ ParkedArr

SpecFn == InitFunctions /\ [][NextFn]_vars

NextGen ==
    \/ ApplyGenerator /\ UNCHANGED <<gameVars, arrVars>>

InitGenerators == InitGen /\ ParkedGame /\ ParkedArr

SpecGen == InitGenerators /\ [][NextGen]_vars

-----------------------------------------------------------------------------
(* Properties                                                              *)

C2_OwnOppDisjoint ==
    lastOp \in {"new", "make_move"}
        => And(board.own_pieces, board.opp_pieces) = {}

\* the castling rights of a colour, whichever side is to move
RightsOf(b, col) ==
    IF color(b) = col THEN b.own_castling_rights ELSE b.opp_castling_rights

\* C3: along make_move calls (and color_flip calls, which only swap the
\* pairs), a castling right that is false stays false: no step other than
\* unmake_move turns any of the four rights from false to true.
C3_CastlingRightsMonotonic ==
    [][lastOp' # "unmake_move" =>
        \A col \in {"White", "Black"} :
            /\ RightsOf(board', col).kingside => RightsOf(board, col).kingside
            /\ RightsOf(board', col).queenside => RightsOf(board, col).queenside
      ]_vars

\* make_move was applied to a board whose kingside right was already
\* cleared, and the right is still cleared
C3_Witness ==
    /\ lastOp = "make_move"
    /\ ~stack[Len(stack)].undo.own_castling_rights.kingside
    /\ ~board.own_castling_rights.kingside

\* C4: color_flip applied twice restores the board: every bitboard, both
\* king squares, both castling-rights pairs and the flipped flag.
C4_ColorFlipInvolution == Len(flips) = 2 => board = flips[1]

\* two color_flip calls in a row were made, and the first changed the board
C4_Witness ==
    /\ Len(flips) = 2
    /\ board = flips[1]
    /\ flips[2] # flips[1]
    /\ flips[1].own_castling_rights # flips[1].opp_castling_rights

\* C5: after construction and initialization the array board is the
\* standard starting position: white on 0..15, black on 48..63, pawns on
\* ranks 2 and 7, rooks on a/h, knights on b/g, bishops on c/f, queens on d
\* (3 and 59), kings on e (4 and 60); the piece-type bitboards are pairwise
\* disjoint and their union is white | black.
C5_StandardStartingPosition ==
    (arrPly = 0 /\ arrStack = <<>>) =>
        /\ bitboard[0] = 0..15
        /\ bitboard[1] = 48..63
        /\ bitboard[2] = (8..15) \cup (48..55)
        /\ bitboard[5] = {0, 7, 56, 63}
        /\ bitboard[4] = {1, 6, 57, 62}
        /\ bitboard[3] = {2, 5, 58, 61}
        /\ bitboard[7] = {3, 59}
        /\ bitboard[6] = {4, 60}
        /\ \A i, j \in 2..7 : i # j => And(bitboard[i], bitboard[j]) = {}
        /\ UNION {bitboard[i] : i \in 2..7} = Or(bitboard[0], bitboard[1])

\* C6: for every square index i in 0..63, rank_idx(i) and file_idx(i) are in
\* 0..7 and square_idx(rank_idx(i), file_idx(i)) = i (no assertion fails).
C6_IndexBijection ==
    fnOp = "square_idx" =>
        /\ ~fnOut.panic
        /\ fnOut.rank \in 0..7
        /\ fnOut.file \in 0..7
        /\ fnOut.index = fnIn.sq

\* the round trip was taken for square 63
C6_Witness == fnOp = "square_idx" /\ fnIn.sq = 63 /\ fnOut.index = 63

\* C7: bitscan_lsd returns None exactly for 0 and otherwise the index of the
\* lowest set bit (k for 1 << k, 1 for (1 << 1) | (1 << 5)).
C7_BitscanLowestSetBit ==
    fnOp = "bitscan_lsd" =>
        /\ (fnOut = None) <=> (fnIn.bb = {})
        /\ fnIn.bb # {} =>
            /\ fnOut.some
            /\ fnOut.val \in fnIn.bb
            /\ \A j \in fnIn.bb : fnOut.val <= j
        /\ fnIn.bb = {1, 5} => fnOut = Some(1)
        /\ \A k \in Squares : fnIn.bb = {k} => fnOut = Some(k)

\* the scan of (1 << 0) | (1 << 63) returned 0
C7_Witness == fnOp = "bitscan_lsd" /\ fnIn.bb = {0, 63} /\ fnOut = Some(0)

\* C8: serialize_board returns the indices of the set bits in strictly
\* ascending order, each exactly once, and OR-ing 1 << i over them gives the
\* bitboard back; the empty bitboard gives the empty sequence.
C8_SerializeAscendingRoundTrip ==
    fnOp = "serialize_board" =>
        /\ \A i \in 1..Len(fnOut) : fnOut[i] \in Squares
        /\ \A i, j \in 1..Len(fnOut) : i < j => fnOut[i] < fnOut[j]
        /\ UNION {Bit(fnOut[i]) : i \in 1..Len(fnOut)} = fnIn.bb
        /\ Len(fnOut) = Cardinality(fnIn.bb)
        /\ fnIn.bb = {} => fnOut = <<>>

\* a bitboard of two bits was serialized
C8_Witness == fnOp = "serialize_board" /\ fnIn.bb = {1, 5} /\ fnOut = <<1, 5>>

\* the squares strictly beyond sq in orientation o: k >= 1 steps of
\* (dr, df) in rank and file that stay on the board
StepOf(o) ==
    CASE o = "North" -> <<1, 0>>
      [] o = "NorthEast" -> <<1, 1>>
      [] o = "East" -> <<0, 1>>
      [] o = "SouthEast" -> <<-1, 1>>
      [] o = "South" -> <<-1, 0>>
      [] o = "SouthWest" -> <<-1, -1>>
      [] o = "West" -> <<0, -1>>
      [] o = "NorthWest" -> <<1, -1>>

Beyond(sq, o) ==
    {t \in Squares :
        \E k \in 1..7 :
            /\ (t \div 8) = (sq \div 8) + (k * StepOf(o)[1])
            /\ (t % 8) = (sq % 8) + (k * StepOf(o)[2])}

\* C9: the north, south, east and west rays of a square are exactly the
\* squares strictly north, south, east and west of it on its file or rank,
\* never the square itself; the north ray of e4 (28) is {36, 44, 52, 60}.
C9_OrthogonalRays ==
    (fnOp = "ray" /\ fnIn.o \in {"North", "South", "East", "West"}) =>
        /\ fnOut = Beyond(fnIn.sq, fnIn.o)
        /\ fnIn.sq \notin fnOut
        /\ (fnIn.sq = 28 /\ fnIn.o = "North") => fnOut = {36, 44, 52, 60}

\* the north ray of e4 was looked up
C9_Witness ==
    fnOp = "ray" /\ fnIn.sq = 28 /\ fnIn.o = "North" /\ fnOut = {36, 44, 52, 60}

\* C10: each diagonal ray of a square is exactly the set of squares reached
\* by k >= 1 diagonal steps in that direction that stay on the board: it
\* excludes the square and has no square reached by wrapping around the
\* a-file / h-file boundary.
C10_DiagonalRays ==
    (fnOp = "ray"
        /\ fnIn.o \in {"NorthEast", "SouthEast", "SouthWest", "NorthWest"}) =>
        /\ fnOut = Beyond(fnIn.sq, fnIn.o)
        /\ fnIn.sq \notin fnOut

\* the north-east ray of g2 (14) was looked up: it stops at h3 (23)
C10_Witness ==
    fnOp = "ray" /\ fnIn.sq = 14 /\ fnIn.o = "NorthEast" /\ fnOut = {23}

\* the on-board squares a knight's jump away from sq
KnightJumps(sq) ==
    {t \in Squares :
        LET dr == (t \div 8) - (sq \div 8)
            df == (t % 8) - (sq % 8)
        IN  <<dr * dr, df * df>> \in {<<1, 4>>, <<4, 1>>}}

\* C11: the knight jump mask of every square is exactly the set of on-board
\* squares that differ from it by (+/-1, +/-2) or (+/-2, +/-1) in (rank,
\* file), with no wraparound; the mask of a1 (0) is {b3, c2} = {17, 10} and
\* the mask of d4 (27) has 8 bits.
C11_KnightJumpMask ==
    fnOp = "knight_movement" =>
        /\ fnOut = KnightJumps(fnIn.sq)
        /\ fnIn.sq = 0 => fnOut = {10, 17}
        /\ fnIn.sq = 27 => Cardinality(fnOut) = 8

\* the mask of a1 was looked up
C11_Witness == fnOp = "knight_movement" /\ fnIn.sq = 0 /\ fnOut = {10, 17}

\* the moves of a returned move list, as a set
MovesOf(out) == {out.moves[i] : i \in 1..Len(out.moves)}

\* C12: pawn_pushes contains, for every pawn p of the side to move, the move
\* (p, p + 8) when p + 8 is empty and also (p, p + 16) when p + 8 and p + 16
\* are both empty, each with piece Pawn, capture None and category Normal;
\* in the starting position it contains (12, 20) and (12, 28).
C12_PawnPushesContained ==
    fnOp = "pawn_pushes" =>
        /\ ~fnOut.panic
        /\ \A p \in And(fnIn.b.own_pieces, fnIn.b.pawns) :
            /\ (p + 8 \in empty(fnIn.b)) =>
                   Move(p, p + 8, "Pawn", color(fnIn.b), NoPiece, "Normal")
                       \in MovesOf(fnOut)
            /\ (p + 8 \in empty(fnIn.b) /\ p + 16 \in empty(fnIn.b)) =>
                   Move(p, p + 16, "Pawn", color(fnIn.b), NoPiece, "Normal")
                       \in MovesOf(fnOut)
        /\ fnIn.b = new_board =>
               {Move(12, 20, "Pawn", "White", NoPiece, "Normal"),
                Move(12, 28, "Pawn", "White", NoPiece, "Normal")}
                   \subseteq MovesOf(fnOut)

\* pawn_pushes was called on the starting position and returned the two
\* pushes of the e2 pawn
C12_Witness ==
    /\ fnOp = "pawn_pushes"
    /\ fnIn.b = new_board
    /\ ~fnOut.panic
    /\ Move(12, 20, "Pawn", "White", NoPiece, "Normal") \in MovesOf(fnOut)
    /\ Move(12, 28, "Pawn", "White", NoPiece, "Normal") \in MovesOf(fnOut)

\* the squares strictly between two squares of one file
BetweenOnFile(lo, hi) == {sq \in Squares : sq % 8 = lo % 8 /\ lo < sq /\ sq < hi}

\* pairs <<lo, hi>> of own rooks of b on one file with only empty squares
\* between them
ColinearOwnRooks(b) ==
    {pr \in And(b.own_pieces, rooks(b)) \X And(b.own_pieces, rooks(b)) :
        /\ pr[1] < pr[2]
        /\ pr[1] % 8 = pr[2] % 8
        /\ BetweenOnFile(pr[1], pr[2]) \subseteq empty(b)}

\* the destinations on the from-square's file of the returned moves of from
FileDestinations(out, from) ==
    {m.to : m \in {mv \in MovesOf(out) : mv.from = from /\ mv.to % 8 = from % 8}}

\* the destinations of from above it (north moves) and below it (south moves)
NorthDestinations(out, from) == {t \in FileDestinations(out, from) : t > from}
SouthDestinations(out, from) == {t \in FileDestinations(out, from) : t < from}

valid_board(b) ==
    /\ And(b.own_pieces, b.opp_pieces) = {}
    /\ b.own_king \in b.own_pieces
    /\ b.opp_king \in b.opp_pieces

\* C14: on every valid board, boards without a rook or queen and boards
\* without a bishop or queen included, each of the seven generators
\* returns a move list: no call fails on an index out of range or on an
\* assertion.
C14_NoRuntimeFailure ==
    (fnOp \in Generators /\ valid_board(fnIn.b)) => ~fnOut.panic

\* C15: square_idx(rank, file) fails its assertion exactly when rank > 7 or
\* file > 7 and returns rank * 8 + file otherwise; fill_rank and fill_file
\* fail exactly for an index above 7; so rank_range and file_range fail for
\* every range that ends at 8, which their own assertion admits, and
\* return for every range start <= end <= 7.
C15_IndexingContract ==
    /\ fnOp = "square_idx_call" =>
        /\ fnOut.panic <=> (fnIn.x > 7 \/ fnIn.y > 7)
        /\ ~fnOut.panic => fnOut.index = fnIn.x * 8 + fnIn.y
    /\ fnOp \in {"fill_rank", "fill_file"} =>
        (fnOut.panic <=> fnIn.x > 7)
    /\ fnOp \in {"rank_range", "file_range"} =>
        /\ (fnIn.x <= fnIn.y /\ fnIn.y = 8) =>
               (range_ok(fnIn.x, fnIn.y) /\ fnOut.panic)
        /\ (fnIn.x <= fnIn.y /\ fnIn.y <= 7) => ~fnOut.panic

\* rank_range(3, 8) was called: its assertion admits the range and the call
\* failed
C15_Witness ==
    /\ fnOp = "rank_range"
    /\ fnIn.x = 3
    /\ fnIn.y = 8
    /\ range_ok(fnIn.x, fnIn.y)
    /\ fnOut.panic

\* k steps from sq in orientation o stay on the board
OnBoardAt(sq, o, k) ==
    /\ (sq \div 8) + k * StepOf(o)[1] \in 0..7
    /\ (sq % 8) + k * StepOf(o)[2] \in 0..7

SquareAt(sq, o, k) ==
    ((sq \div 8) + k * StepOf(o)[1]) * 8 + (sq % 8) + k * StepOf(o)[2]

\* the squares a slider on sq reaches in orientation o: it steps over
\* consecutive empty squares and stops on the first square that is not empty
\* or at the edge of the board
Reached(sq, o, emp) ==
    {SquareAt(sq, o, k) :
        k \in {j \in 1..7 : /\ OnBoardAt(sq, o, j)
                            /\ \A i \in 1..(j - 1) : SquareAt(sq, o, i) \in emp}}

\* C16: for each of the eight orientations and all sliders and empty sets
\* with no square in common, the attack function returns exactly the union,
\* over the sliders, of the squares reached by stepping over consecutive
\* empty squares plus the first square that is not empty: nothing beyond
\* it, and nothing across the edge of the board.
C16_DirectionalAttacks ==
    fnOp = "attacks" =>
        fnOut = UNION {Reached(sq, fnIn.o, fnIn.empty) : sq \in fnIn.sliders}

\* east_attacks was called with sliders on d4 and h4 and g4 not empty: the
\* d4 slider reaches e4, f4 and g4, the h4 slider reaches nothing
C16_Witness ==
    /\ fnOp = "attacks"
    /\ fnIn.o = "East"
    /\ fnIn.sliders = {27, 31}
    /\ fnIn.empty = Not({27, 30, 31})
    /\ fnOut = {28, 29, 30}

\* C17: for every orientation and every placement of the sliders, several
\* on one rank, file or diagonal band included, parse_sliding_moves returns
\* for each slider exactly the pairs (slider, t) with t in the slider's own
\* reachable set: no pair is dropped, none is given to another slider, and
\* none is returned twice.
C17_SlidingDecompositionExact ==
    fnOp = "parse_sliding_moves" =>
        /\ ~fnOut.panic
        /\ {fnOut.pairs[i] : i \in 1..Len(fnOut.pairs)} =
               {pr \in fnIn.sliders \X Squares :
                   pr[2] \in Reached(pr[1], fnIn.o, fnIn.empty)}
        /\ \A i, j \in 1..Len(fnOut.pairs) :
               i # j => fnOut.pairs[i] # fnOut.pairs[j]

\* the two squares lie on one diagonal or anti-diagonal / on one rank or file
OnDiagonal(from, to) ==
    from # to /\ (diag_index(from) = diag_index(to)
                  \/ anti_diag_index(from) = anti_diag_index(to))
OnRankOrFile(from, to) ==
    from # to /\ (rank_index(from) = rank_index(to)
                  \/ file_index(from) = file_index(to))

\* every move ortho_moves returned starts on an orthogonal slider, runs
\* along a rank or file and names the piece identify reports on its
\* from-square
OrthoMovesFromOrthoSliders ==
    (fnOp = "ortho_moves" /\ ~fnOut.panic) =>
        \A m \in MovesOf(fnOut) :
            /\ m.from \in fnIn.b.ortho_sliders
            /\ OnRankOrFile(m.from, m.to)
            /\ m.piece = identify(fnIn.b, m.from)

\* C18: every move diag_moves returns has its from-square in diag_sliders,
\* runs along a diagonal and names the piece identify reports on its
\* from-square, and every move ortho_moves returns has its from-square in
\* ortho_sliders, runs along a rank or file and names the piece identify
\* reports on its from-square.
C18_SlidesFromTheirSliders ==
    /\ OrthoMovesFromOrthoSliders
    /\ (fnOp = "diag_moves" /\ ~fnOut.panic) =>
        \A m \in MovesOf(fnOut) :
            /\ m.from \in fnIn.b.diag_sliders
            /\ OnDiagonal(m.from, m.to)
            /\ m.piece = identify(fnIn.b, m.from)

\* C19: every move ortho_moves or diag_moves returns is a move of the side
\* to move: its from-square is in own_pieces, never a square of an
\* opponent's rook, bishop or queen.
C19_SlidesOfTheSideToMove ==
    (fnOp \in {"ortho_moves", "diag_moves"} /\ ~fnOut.panic) =>
        \A m \in MovesOf(fnOut) :
            /\ m.from \in fnIn.b.own_pieces
            /\ m.from \notin fnIn.b.opp_pieces

\* the squares one king step away from sq
AdjacentSquares(sq) ==
    {t \in Squares :
        /\ t # sq
        /\ (t \div 8) - (sq \div 8) \in -1..1
        /\ (t % 8) - (sq % 8) \in -1..1}

\* C20: king_moves returns exactly one move per empty square adjacent to
\* own_king, with capture None, and exactly one move per adjacent square
\* occupied by an opponent piece, with the piece identify reports there as
\* its capture, and nothing else: no move is listed twice and no move
\* carries a capture while its destination is empty.
C20_KingMovesExact ==
    fnOp = "king_moves" =>
        /\ ~fnOut.panic
        /\ MovesOf(fnOut) =
               {Move(fnIn.b.own_king, t, "King", color(fnIn.b), NoPiece, "Normal") :
                   t \in And(AdjacentSquares(fnIn.b.own_king), empty(fnIn.b))}
               \cup
               {Move(fnIn.b.own_king, t, "King", color(fnIn.b),
                     identify(fnIn.b, t), "Normal") :
                   t \in And(AdjacentSquares(fnIn.b.own_king), fnIn.b.opp_pieces)}
        /\ \A i, j \in 1..Len(fnOut.moves) :
               i # j => fnOut.moves[i] # fnOut.moves[j]
        /\ \A m \in MovesOf(fnOut) :
               m.to \in empty(fnIn.b) => m.capture = NoPiece

\* the knights of the side to move: its squares that hold no pawn, no
\* slider and no king
OwnKnights(b) ==
    b.own_pieces \ (b.pawns \cup b.ortho_sliders \cup b.diag_sliders
                      \cup {b.own_king, b.opp_king})

\* C21: knight_moves returns, for every knight of the side to move, exactly
\* one move per knight-jump target that is empty (capture None) and exactly
\* one per target that holds an opponent piece (capture = the piece identify
\* reports there), and nothing else: no move onto an own piece and no move
\* from a square that is not an own knight.
C21_KnightMovesExact ==
    fnOp = "knight_moves" =>
        /\ ~fnOut.panic
        /\ MovesOf(fnOut) =
               UNION {
                   {Move(k, t, "Knight", color(fnIn.b), NoPiece, "Normal") :
                       t \in And(KnightJumps(k), empty(fnIn.b))}
                   \cup
                   {Move(k, t, "Knight", color(fnIn.b), identify(fnIn.b, t), "Normal") :
                       t \in And(KnightJumps(k), fnIn.b.opp_pieces)} :
                   k \in OwnKnights(fnIn.b)}
        /\ \A i, j \in 1..Len(fnOut.moves) :
               i # j => fnOut.moves[i] # fnOut.moves[j]
        /\ \A m \in MovesOf(fnOut) :
               /\ m.from \in OwnKnights(fnIn.b)
               /\ m.to \notin fnIn.b.own_pieces

\* knight_moves was called with an own knight on e4 and an opponent pawn on
\* f2: the capture e4 x f2 and the quiet jump to d6 are among the moves
C21_Witness ==
    /\ fnOp = "knight_moves"
    /\ fnIn.b = place(place(kings_only, 13, "Pawn", "opp"), 28, "Knight", "own")
    /\ ~fnOut.panic
    /\ Move(28, 13, "Knight", "White", "Pawn", "Normal") \in MovesOf(fnOut)
    /\ Move(28, 43, "Knight", "White", NoPiece, "Normal") \in MovesOf(fnOut)
    /\ Len(fnOut.moves) = 8

C23_PawnCapturesOneStep ==
    fnOp = "pawn_captures" =>
        /\ ~fnOut.panic
        /\ \A m \in MovesOf(fnOut) :
            /\ m.from \in And(fnIn.b.own_pieces, fnIn.b.pawns)
            /\ \/ m.to = m.from + 9 /\ file_index(m.from) # 7
               \/ m.to = m.from + 7 /\ file_index(m.from) # 0
            /\ m.to \in fnIn.b.opp_pieces
            /\ m.capture = identify(fnIn.b, m.to)

\* the last move made on the array board and the array it was made on
LastArrMove == arrStack[Len(arrStack)].m
ArrBefore == arrStack[Len(arrStack)].before

\* C24: after make_move of a move consistent with the board the from-square
\* is empty in every bitboard, the to-square is occupied by exactly the
\* mover's piece of type move.piece (the captured piece is gone from the
\* opponent's set and from its type set, also when it has the moving type),
\* and every bit other than the from and to bits is unchanged.
C24_MakeMoveFrame ==
    arrStack # <<>> =>
        LET m == LastArrMove
        IN  /\ m.from \in ArrBefore[color_board_index(m.color)]
            /\ m.piece = arr_piece_at(ArrBefore, m.from)
            /\ m.to \notin ArrBefore[color_board_index(m.color)]
            /\ m.capture = IF m.to \in ArrBefore[1 - color_board_index(m.color)]
                           THEN arr_piece_at(ArrBefore, m.to) ELSE NoPiece
            /\ \A i \in 0..7 : m.from \notin bitboard[i]
            /\ \A i \in 0..7 :
                    m.to \in bitboard[i]
                        <=> i \in {color_board_index(m.color),
                                   piece_board_index(m.piece)}
            /\ \A i \in 0..7 :
                    bitboard[i] \ {m.from, m.to}
                        = ArrBefore[i] \ {m.from, m.to}

\* a piece has captured a piece of its own type
C24_Witness ==
    /\ arrStack # <<>>
    /\ LastArrMove.capture = LastArrMove.piece
    /\ LastArrMove.to \in ArrBefore[1 - color_board_index(LastArrMove.color)]
    /\ bitboard = make_move(ArrBefore, LastArrMove)

\* C25: no sliding move lands on a piece of the side to move: every move
\* ortho_moves or diag_moves returns with capture None has an empty
\* destination square, and every move with a capture has its destination in
\* opp_pieces; a rook behind an own pawn gets no move onto the pawn's square.
C25_SlidesAvoidOwnPieces ==
    (fnOp \in {"ortho_moves", "diag_moves"} /\ ~fnOut.panic) =>
        \A m \in MovesOf(fnOut) :
            /\ m.to \notin fnIn.b.own_pieces
            /\ m.capture = NoPiece => m.to \in empty(fnIn.b)
            /\ m.capture # NoPiece => m.to \in fnIn.b.opp_pieces

\* C26: every move pawn_pushes returns has the shape of a pawn push:
\* to = from + 8 with the to-square empty, or to = from + 16 with the
\* from-square on rank index 1 and both from + 8 and from + 16 empty; also
\* with two own pawns on one file and with an own pawn beyond rank index 1
\* that faces two empty squares.
C26_PawnPushShape ==
    fnOp = "pawn_pushes" =>
        /\ ~fnOut.panic
        /\ \A m \in MovesOf(fnOut) :
            \/ m.to = m.from + 8 /\ m.to \in empty(fnIn.b)
            \/ /\ m.to = m.from + 16
               /\ rank_index(m.from) = 1
               /\ m.from + 8 \in empty(fnIn.b)
               /\ m.to \in empty(fnIn.b)


=============================================================================
